---- MODULE Spec2Model ----
(***************************************************************************)
(* A model of torch/fx/passes/net_min_base.py: the minimizer that isolates  *)
(* the nodes of an FX graph on which two backends (run_a, run_b) disagree.  *)
(*                                                                          *)
(* Nodes are numbered in graph (topological) order: 0 is the graph's        *)
(* placeholder, 1..NumNodes are the callable nodes; a node's name is its    *)
(* number.  A tensor is abstracted to the node it is the value of and the   *)
(* set of nodes whose backend-B deviation it carries (its taint): the       *)
(* reference value of a node has the empty taint, and two values of the     *)
(* same node compare equal within tolerance iff their taints agree.         *)
(***************************************************************************)
EXTENDS Integers, Sequences, FiniteSets, TLC

\* Number of callable nodes of the graph.
NumNodes == 4
\* Number of minimize() calls followed in a behaviour that repeats the call.
MaxCalls == 2

Node == 1 .. NumNodes
Input == 0
None == -1

VARIABLES
    module,        \* self.module: node -> its all_input_nodes (names)
    fusions,       \* self.fusions: node -> its fusion group
    fault,         \* what run_a / run_b do at each node
    forward,       \* what main_module(*sample_input) does in a live capture
    settings,      \* self.settings
    args,          \* the (start, end) given to minimize()
    a_outputs,     \* self.a_outputs: name -> stored value
    b_outputs,     \* self.b_outputs
    results,       \* self.results: result key -> numeric result
    tag,           \* node.tag of every callable node
    pc,            \* "idle", or the traversal minimize() is inside
    nodes,         \* minimize(): the collected node list
    idx,           \* position of the for loop of the traversal
    culprits,      \* the traversal's culprits
    nodes_to_run,  \* _accumulate_traverse: nodes_to_run
    stack,         \* _binary_search_impl: the frames of the recursion
    rounds,        \* history: one entry per _build_submodule/_run_and_compare
    calls,         \* history: one entry per finished minimize()
    session,       \* number of the minimizer object in use
    limit          \* how many times the caller calls minimize()

vars == <<module, fusions, fault, forward, settings, args, a_outputs, b_outputs,
          results, tag, pc, nodes, idx, culprits, nodes_to_run, stack,
          rounds, calls, session, limit>>

(***************************************************************************)
(* Sets and sequences                                                       *)
(***************************************************************************)
Range(s) == {s[i] : i \in DOMAIN s}

Min(S) == CHOOSE x \in S : \A y \in S : x <= y

RECURSIVE Sorted(_)
Sorted(S) == IF S = {} THEN <<>> ELSE <<Min(S)>> \o Sorted(S \ {Min(S)})

Put(f, k, v) == [x \in DOMAIN f \cup {k} |-> IF x = k THEN v ELSE f[x]]

(***************************************************************************)
(* Graphs, fusion maps and backends the minimizer is run on                 *)
(***************************************************************************)
Chain == [n \in Node |-> {n - 1}]
Fan == [n \in Node |-> {Input}]
Tree == [n \in Node |-> {n \div 2}]
Diamond == [n \in Node |-> IF n = NumNodes /\ n > 2 THEN {n - 1, n - 2} ELSE {n \div 2}]
Ladder == [n \in Node |-> IF n <= 2 THEN {n - 1} ELSE {n - 1, n - 2}]
Spur == [n \in Node |-> IF n = NumNodes /\ n > 2 THEN {1} ELSE {n - 1}]
Graphs == {Chain, Fan, Tree, Diamond, Ladder, Spur}

\* A chain joined at the last node by a node that reads the graph's input.
Join ==
    [n \in Node |-> IF n = NumNodes /\ n > 2 THEN {n - 1, n - 2}
                    ELSE IF n = NumNodes - 1 THEN {Input}
                    ELSE {n - 1}]

\* Is there a dependency path from node a to node b in graph g?
RECURSIVE Reach(_, _, _)
Reach(g, a, b) ==
    /\ a < b
    /\ \/ a \in g[b]
       \/ \E c \in g[b] : c > a /\ Reach(g, a, c)

\* No node outside S lies on a dependency path between two nodes of S.
Convex(g, S) ==
    \A m \in Node \ S :
        ~ ((\E a \in S : Reach(g, a, m)) /\ (\E b \in S : Reach(g, m, b)))

\* FxNetAccFusionsFinder's result: no fusion group, or one group of two nodes.
FusionMaps(g) ==
    {<<>>} \cup {[n \in G |-> G] : G \in {S \in SUBSET Node : Cardinality(S) = 2 /\ Convex(g, S)}}

\* "ok": both backends run the node and agree on it.
\* "mismatch": run_b's value of the node deviates beyond tolerance.
\* "a_err", "b_err": the backend raises FxNetMinimizerRunFuncError.
\* "a_exc", "b_exc": the backend raises another exception (RuntimeError).
FaultKinds == {"ok", "mismatch", "a_err", "b_err", "a_exc", "b_exc"}

Faulty(f) == {n \in Node : f[n] # "ok"}

\* The backends with at most k faulty nodes, of the kinds given.
FaultMaps(kinds, k) ==
    {f \in [Node -> kinds \cup {"ok"}] : Cardinality(Faulty(f)) <= k}

Methods == {"sequential", "binary", "accumulate"}

Settings(methods, accs, alls) ==
    [accumulate_error : accs, traverse_method : methods, find_all : alls,
     return_intermediate : {FALSE}]

\* The settings run_nodes reads: return_intermediate (and accumulate_error,
\* through _get_submod_inputs).
RunSettings ==
    [accumulate_error : BOOLEAN, traverse_method : {"sequential"}, find_all : {FALSE},
     return_intermediate : BOOLEAN]

\* start / end of minimize(): the whole graph, a suffix, a prefix, an inner
\* range, and an end that precedes the start.
WholeRange == [start |-> None, end |-> None]
Ranges ==
    {WholeRange}
    \cup {[start |-> s, end |-> None] : s \in 2 .. NumNodes - 1}
    \cup {[start |-> None, end |-> NumNodes - 1],
          [start |-> 2, end |-> NumNodes - 1],
          [start |-> 3, end |-> 2]}

\* Every start / end: a node name or None, each.
AllRanges == [start : Node \cup {None}, end : Node \cup {None}]

(***************************************************************************)
(* Values                                                                   *)
(***************************************************************************)
Value(n, t) == [node |-> n, taint |-> t]

\* The value the eager forward pass of the module gives node n.
Reference(n) == Value(n, {})

sample_input == <<Reference(Input)>>

\* __init__: both stores hold the sample input under the placeholder names.
InitOutputs == [name \in {Input} |-> sample_input[1]]

(***************************************************************************)
(* The backends and the comparison function (supplied by the caller)        *)
(***************************************************************************)
\* The values of the nodes of `todo` (in graph order), computed from `env` by
\* backend `side`: a node's value carries the taint of its inputs, and on
\* backend B the node's own deviation.
RECURSIVE Execute(_, _, _)
Execute(todo, env, side) ==
    IF todo = <<>> THEN env
    ELSE LET n == Head(todo)
             own == IF side = "b" /\ fault[n] = "mismatch" THEN {n} ELSE {}
             carried == UNION {env[i].taint : i \in module[n]}
         IN Execute(Tail(todo), Put(env, n, Value(n, carried \cup own)), side)

\* The exception backend `side` raises on a submodule, "" if none: that of
\* the first node (in graph order) the backend fails on.
Raises(submodule, side) ==
    LET err == IF side = "a" THEN "a_err" ELSE "b_err"
        exc == IF side = "a" THEN "a_exc" ELSE "b_exc"
        bad == {n \in submodule : fault[n] \in {err, exc}}
    IN IF bad = {} THEN ""
       ELSE IF fault[Min(bad)] = err THEN "FxNetMinimizerRunFuncError"
       ELSE "RuntimeError"

\* run_a / run_b on a submodule with the given placeholders and output nodes.
RunBackend(side, submodule, placeholders, output_nodes, inputs) ==
    LET env == [name \in Range(placeholders) |->
                   inputs[CHOOSE i \in DOMAIN placeholders : placeholders[i] = name]]
        all == Execute(Sorted(submodule), env, side)
    IN [raised |-> Raises(submodule, side),
        result |-> [i \in DOMAIN output_nodes |-> all[output_nodes[i]]]]

run_a(submodule, placeholders, output_nodes, inputs) ==
    RunBackend("a", submodule, placeholders, output_nodes, inputs)

run_b(submodule, placeholders, output_nodes, inputs) ==
    RunBackend("b", submodule, placeholders, output_nodes, inputs)

\* compare_fn: the number of outputs that differ, and whether none does.
compare_fn(a_result, b_result) ==
    LET diff == {i \in DOMAIN a_result : a_result[i] # b_result[i]}
    IN [numeric_result |-> Cardinality(diff), bool_result |-> diff = {}]

(***************************************************************************)
(* _tag_nodes, split_by_tags, _build_submodule                              *)
(***************************************************************************)
\* TagOf leaving a "main_1" tag of an earlier round on a node.
TagOfStale(n, selected_nodes, t) ==
    IF n \in selected_nodes THEN "minimize"
    ELSE IF t[n] = "main_1" \/ \E i \in module[n] \cap Node : t[i] \in {"minimize", "main_1"}
    THEN "main_1"
    ELSE "main_0"

\* The tag _tag_nodes gives node n, the tags t of the earlier nodes being set.
TagOf(n, selected_nodes, t) ==
    IF n \in selected_nodes THEN "minimize"
    ELSE IF \E i \in module[n] \cap Node : t[i] \in {"minimize", "main_1"} THEN "main_1"
    ELSE "main_0"

\* The loop of _tag_nodes from node n on, over the tags t set so far.
RECURSIVE TagFrom(_, _, _)
TagFrom(n, selected_nodes, t) ==
    IF n > NumNodes THEN t
    ELSE TagFrom(n + 1, selected_nodes, [t EXCEPT ![n] = TagOf(n, selected_nodes, t)])

_tag_nodes(selected_nodes) == TagFrom(1, selected_nodes, tag)

Tagged(t, x) == {n \in Node : t[n] = x}

\* The "minimize" nodes that cannot be in one submodule with the first ones:
\* those fed by a "main_1" node (itself fed by "minimize"), and what follows.
Late(t) ==
    {n \in Tagged(t, "minimize") :
        \E c \in Tagged(t, "minimize") :
            /\ \E i \in module[c] \cap Node : t[i] = "main_1"
            /\ c = n \/ Reach(module, c, n)}

Child(x, k, ns) == IF ns = {} THEN {} ELSE {[name |-> <<x, k>>, nodes |-> ns]}

\* split_by_tags: the children of the split module, one per tag that has
\* nodes; the nodes of a tag that cannot form one submodule come out as two.
SplitChildren(t, late) ==
    Child("main_0", 0, Tagged(t, "main_0"))
    \cup Child("minimize", 0, Tagged(t, "minimize") \ late)
    \cup Child("minimize", 1, late)
    \cup Child("main_1", 0, Tagged(t, "main_1"))

split_by_tags(t) == SplitChildren(t, Late(t))

\* The end of _build_submodule, given the tags and the "minimize" children.
Built(t, found) ==
    [tag |-> t,
     error |-> IF Cardinality(found) = 1 THEN "" ELSE "FxNetMinimizerBadModuleError",
     submodule |-> UNION {c.nodes : c \in {d \in found : Cardinality(found) = 1}}]

Found(t) == {c \in split_by_tags(t) : c.name[1] = "minimize"}

BuildTagged(t) == Built(t, Found(t))

\* _build_submodule: the tags it leaves, the submodule found, and the error
\* raised when there is not exactly one "minimize" child.
_build_submodule(selected_nodes) == BuildTagged(_tag_nodes(selected_nodes))

\* The placeholders of a submodule: the names of the outside nodes it reads.
Placeholders(submodule) ==
    Sorted(UNION {module[n] : n \in submodule} \ submodule)

\* The nodes the graph returns: those no other node reads.
Returned == {n \in Node : \A m \in Node : n \notin module[m]}

\* The output of a submodule as split_by_tags builds it: its nodes that are
\* read outside it or are returned by the graph.
Outputs(submodule) ==
    Sorted({n \in submodule :
              n \in Returned \/ \E m \in Node \ submodule : n \in module[m]})

(***************************************************************************)
(* _get_submod_inputs, _store_outputs, _run_and_compare                     *)
(***************************************************************************)
Stored(outputs, placeholders) == [i \in DOMAIN placeholders |-> outputs[placeholders[i]]]

\* The inputs the forward pre-hook sees in main_module(*sample_input).
Captured(placeholders) == [i \in DOMAIN placeholders |-> Reference(placeholders[i])]

\* SubmodInputs handing backend B its own stored outputs whatever
\* accumulate_error is.
SubmodInputsOwn(placeholders, stored) ==
    [a_input |-> IF stored THEN Stored(a_outputs, placeholders) ELSE Captured(placeholders),
     b_input |-> IF stored THEN Stored(b_outputs, placeholders) ELSE Captured(placeholders),
     hook |-> ~ stored,
     raised |-> IF ~ stored /\ forward = "raise" THEN "RuntimeError" ELSE "",
     removed |-> ~ stored /\ forward # "raise"]

\* SubmodInputs handing backend B the inputs of backend A whatever
\* accumulate_error is.
SubmodInputsSame(placeholders, stored) ==
    [a_input |-> IF stored THEN Stored(a_outputs, placeholders) ELSE Captured(placeholders),
     b_input |-> IF stored THEN Stored(a_outputs, placeholders) ELSE Captured(placeholders),
     hook |-> ~ stored,
     raised |-> IF ~ stored /\ forward = "raise" THEN "RuntimeError" ELSE "",
     removed |-> ~ stored /\ forward # "raise"]

\* _get_submod_inputs, the placeholders of the submodule being given.
SubmodInputs(placeholders, stored) ==
    [a_input |-> IF stored THEN Stored(a_outputs, placeholders) ELSE Captured(placeholders),
     b_input |-> IF ~ settings.accumulate_error
                 THEN IF stored THEN Stored(a_outputs, placeholders)
                      ELSE Captured(placeholders)
                 ELSE IF stored THEN Stored(b_outputs, placeholders)
                      ELSE Captured(placeholders),
     hook |-> ~ stored,
     raised |-> IF ~ stored /\ forward = "raise" THEN "RuntimeError" ELSE "",
     removed |-> ~ stored /\ forward # "raise"]

\* _get_submod_inputs always taking the live-capture branch.
GetSubmodInputsLive(placeholders) == SubmodInputs(placeholders, FALSE)

_get_submod_inputs(placeholders) ==
    SubmodInputs(placeholders, Range(placeholders) \subseteq DOMAIN a_outputs)

\* _store_outputs storing the first output only.
StoreFirstOnly(outputs, output_nodes, result) ==
    IF output_nodes = <<>> THEN outputs
    ELSE Put(outputs, Head(output_nodes), Head(result))

\* _store_outputs: `outputs` with the result stored under each output name.
RECURSIVE _store_outputs(_, _, _)
_store_outputs(outputs, output_nodes, result) ==
    IF output_nodes = <<>> THEN outputs
    ELSE _store_outputs(Put(outputs, Head(output_nodes), Head(result)),
                        Tail(output_nodes), Tail(result))

\* The output nodes of the submodule once _run_and_compare has rewritten its
\* output to output_names (if any are given).
OutputNodes(submodule, placeholders, output_names) ==
    IF output_names # <<>>
    THEN Sorted(Range(placeholders) \cap Range(output_names))
         \o Sorted(submodule \cap Range(output_names))
    ELSE Outputs(submodule)

\* The exception _run_and_compare ends in, "" if none.
RunError(a, b, cmp) ==
    IF a.raised # "" THEN a.raised
    ELSE IF b.raised # "" THEN b.raised
    ELSE IF ~ cmp.bool_result THEN "FxNetMinimizerResultMismatchError"
    ELSE ""

\* Compared storing the output of run_a as soon as run_a returned.
ComparedPartialStore(placeholders, output_nodes, inputs, a, b, cmp, ran) ==
    [error |-> IF inputs.raised # "" THEN inputs.raised ELSE RunError(a, b, cmp),
     a_outputs |-> IF inputs.raised = "" /\ a.raised = ""
                   THEN _store_outputs(a_outputs, output_nodes, a.result)
                   ELSE a_outputs,
     b_outputs |-> IF ran THEN _store_outputs(b_outputs, output_nodes, b.result)
                   ELSE b_outputs,
     results |-> IF ran THEN Put(results, output_nodes, cmp.numeric_result) ELSE results,
     placeholders |-> placeholders,
     output_nodes |-> output_nodes,
     a_input |-> inputs.a_input,
     b_input |-> inputs.b_input,
     hook |-> inputs.hook,
     removed |-> inputs.removed,
     ran_a |-> inputs.raised = "",
     ran_b |-> inputs.raised = "" /\ a.raised = "",
     compared |-> ran,
     a_result |-> IF inputs.raised = "" /\ a.raised = "" THEN a.result ELSE <<>>,
     b_result |-> IF ran THEN b.result ELSE <<>>]

\* Compared storing the output of run_b only if the comparison passes.
ComparedStoreOnPass(placeholders, output_nodes, inputs, a, b, cmp, ran) ==
    [error |-> IF inputs.raised # "" THEN inputs.raised ELSE RunError(a, b, cmp),
     a_outputs |-> IF ran THEN _store_outputs(a_outputs, output_nodes, a.result)
                   ELSE a_outputs,
     b_outputs |-> IF ran /\ cmp.bool_result
                   THEN _store_outputs(b_outputs, output_nodes, b.result)
                   ELSE b_outputs,
     results |-> IF ran THEN Put(results, output_nodes, cmp.numeric_result) ELSE results,
     placeholders |-> placeholders,
     output_nodes |-> output_nodes,
     a_input |-> inputs.a_input,
     b_input |-> inputs.b_input,
     hook |-> inputs.hook,
     removed |-> inputs.removed,
     ran_a |-> inputs.raised = "",
     ran_b |-> inputs.raised = "" /\ a.raised = "",
     compared |-> ran,
     a_result |-> IF inputs.raised = "" /\ a.raised = "" THEN a.result ELSE <<>>,
     b_result |-> IF ran THEN b.result ELSE <<>>]

\* _run_and_compare from the two runs on: the stores, the comparison.
Compared(placeholders, output_nodes, inputs, a, b, cmp, ran) ==
    [error |-> IF inputs.raised # "" THEN inputs.raised ELSE RunError(a, b, cmp),
     a_outputs |-> IF ran THEN _store_outputs(a_outputs, output_nodes, a.result)
                   ELSE a_outputs,
     b_outputs |-> IF ran THEN _store_outputs(b_outputs, output_nodes, b.result)
                   ELSE b_outputs,
     results |-> IF ran THEN Put(results, output_nodes, cmp.numeric_result) ELSE results,
     placeholders |-> placeholders,
     output_nodes |-> output_nodes,
     a_input |-> inputs.a_input,
     b_input |-> inputs.b_input,
     hook |-> inputs.hook,
     removed |-> inputs.removed,
     ran_a |-> inputs.raised = "",
     ran_b |-> inputs.raised = "" /\ a.raised = "",
     compared |-> ran,
     a_result |-> IF inputs.raised = "" /\ a.raised = "" THEN a.result ELSE <<>>,
     b_result |-> IF ran THEN b.result ELSE <<>>]

Ran(placeholders, output_nodes, inputs, a, b) ==
    Compared(placeholders, output_nodes, inputs, a, b,
             compare_fn(a.result, b.result),
             inputs.raised = "" /\ a.raised = "" /\ b.raised = "")

RunBoth(submodule, placeholders, output_nodes, inputs) ==
    Ran(placeholders, output_nodes, inputs,
        run_a(submodule, placeholders, output_nodes, inputs.a_input),
        run_b(submodule, placeholders, output_nodes, inputs.b_input))

RunOn(submodule, placeholders, output_names) ==
    RunBoth(submodule, placeholders, OutputNodes(submodule, placeholders, output_names),
            _get_submod_inputs(placeholders))

\* _run_and_compare on the submodule: the exception it ends in ("" if none),
\* the stores it leaves, and what it did.
_run_and_compare(submodule, output_names) ==
    RunOn(submodule, Placeholders(submodule), output_names)

(***************************************************************************)
(* One round: _build_submodule followed by _run_and_compare                 *)
(***************************************************************************)
\* The entry of a round in the history `rounds`.
Entry(selected_nodes, output_names, built, run, ok) ==
    [call |-> Len(calls) + 1,
     sublist |-> IF stack = <<>> THEN nodes ELSE Head(stack).nodes,
     selected |-> selected_nodes,
     output_names |-> output_names,
     error |-> IF ok THEN run.error ELSE built.error,
     built |-> ok,
     submodule |-> built.submodule,
     placeholders |-> IF ok THEN run.placeholders ELSE <<>>,
     output_nodes |-> IF ok THEN run.output_nodes ELSE <<>>,
     a_stored |-> a_outputs,
     b_stored |-> b_outputs,
     results |-> results,
     hook |-> ok /\ run.hook,
     removed |-> ok /\ run.removed,
     a_input |-> IF ok THEN run.a_input ELSE <<>>,
     b_input |-> IF ok THEN run.b_input ELSE <<>>,
     ran_a |-> ok /\ run.ran_a,
     ran_b |-> ok /\ run.ran_b,
     compared |-> ok /\ run.compared,
     a_result |-> IF ok THEN run.a_result ELSE <<>>,
     b_result |-> IF ok THEN run.b_result ELSE <<>>]

Rounded(built, run, ok, entry) ==
    [error |-> entry.error,
     tag |-> built.tag,
     a_outputs |-> IF ok THEN run.a_outputs ELSE a_outputs,
     b_outputs |-> IF ok THEN run.b_outputs ELSE b_outputs,
     results |-> IF ok THEN run.results ELSE results,
     entry |-> entry]

RoundRun(selected_nodes, output_names, built, run) ==
    Rounded(built, run, built.error = "",
            Entry(selected_nodes, output_names, built, run, built.error = ""))

RoundBuilt(selected_nodes, output_names, built) ==
    RoundRun(selected_nodes, output_names, built,
             _run_and_compare(built.submodule, output_names))

\* The exception the round ends in, the state it leaves, and its entry.
Round(selected_nodes, output_names) ==
    RoundBuilt(selected_nodes, output_names, _build_submodule(selected_nodes))

Apply(r) ==
    /\ tag' = r.tag
    /\ a_outputs' = r.a_outputs
    /\ b_outputs' = r.b_outputs
    /\ results' = r.results
    /\ rounds' = Append(rounds, r.entry)

Locals(p, n, i, c, ntr, st) ==
    /\ pc' = p
    /\ nodes' = n
    /\ idx' = i
    /\ culprits' = c
    /\ nodes_to_run' = ntr
    /\ stack' = st

\* minimize() or run_nodes() is left: with the value it returns (exception =
\* ""; the culprits, or None for run_nodes, which has no return statement), or
\* by the exception that escapes it.
Left(op, exception, value) ==
    /\ Locals("idle", <<>>, 0, {}, {}, <<>>)
    /\ calls' = Append(calls, [op |-> op,
                               session |-> session,
                               first |-> \A i \in DOMAIN calls : calls[i].session # session,
                               settings |-> settings,
                               exception |-> exception,
                               culprits |-> value])

Leave(exception, value) == Left("minimize", exception, value)

Stay(p, n, i, c, ntr, st) == Locals(p, n, i, c, ntr, st) /\ UNCHANGED calls

RunFuncError == "FxNetMinimizerRunFuncError"
ResultMismatchError == "FxNetMinimizerResultMismatchError"
BadModuleError == "FxNetMinimizerBadModuleError"

(***************************************************************************)
(* _collect_nodes and minimize                                              *)
(***************************************************************************)
\* CollectFrom leaving the loop at the node named `end` before appending it.
RECURSIVE CollectFromExclusive(_, _, _, _, _)
CollectFromExclusive(n, start, end, add_node, acc) ==
    IF n > NumNodes THEN acc
    ELSE IF n \notin Node THEN CollectFromExclusive(n + 1, start, end, add_node, acc)
    ELSE IF n = end THEN acc
    ELSE CollectFromExclusive(n + 1, start, end, add_node \/ n = start,
                              IF add_node \/ n = start THEN Append(acc, n) ELSE acc)

\* The loop of _collect_nodes from graph node n on (the placeholder, which is
\* not callable, is passed over).
RECURSIVE CollectFrom(_, _, _, _, _)
CollectFrom(n, start, end, add_node, acc) ==
    IF n > NumNodes THEN acc
    ELSE IF n \notin Node THEN CollectFrom(n + 1, start, end, add_node, acc)
    ELSE IF n = end
    THEN IF add_node \/ n = start THEN Append(acc, n) ELSE acc
    ELSE CollectFrom(n + 1, start, end, add_node \/ n = start,
                     IF add_node \/ n = start THEN Append(acc, n) ELSE acc)

_collect_nodes(start, end) == CollectFrom(Input, start, end, start = None, <<>>)

Frame(ns) == [nodes |-> ns, phase |-> "call", culprits |-> {}]

\* The dispatch of minimize() on the collected nodes, up to the first round
\* of the traversal.
Dispatch(collected) ==
    CASE settings.traverse_method = "sequential" ->
           IF collected = <<>> THEN Leave("", {})
           ELSE Stay("sequential", collected, 1, {}, {}, <<>>)
      [] settings.traverse_method = "binary" ->
           Stay("binary", collected, 0, {}, {}, <<Frame(collected)>>)
      [] settings.traverse_method = "accumulate" ->
           IF settings.find_all \/ collected = <<>> THEN Leave("", {})
           ELSE Stay("accumulate", collected, 1, {}, {}, <<>>)

minimize ==
    /\ pc = "idle"
    /\ Len(calls) < limit
    /\ Dispatch(_collect_nodes(args.start, args.end))
    /\ UNCHANGED <<module, fusions, fault, forward, settings, args, a_outputs, b_outputs,
                   results, tag, rounds, session, limit>>

(***************************************************************************)
(* The traversals                                                           *)
(***************************************************************************)
\* SequentialHandle adding the whole fusion group on a mismatch too.
SequentialHandleGroup(node, cur_nodes, r) ==
    /\ Apply(r)
    /\ IF r.error \in {ResultMismatchError, RunFuncError}
       THEN IF ~ settings.find_all \/ idx = Len(nodes)
            THEN Leave("", culprits \cup cur_nodes)
            ELSE Stay(pc, nodes, idx + 1, culprits \cup cur_nodes, {}, <<>>)
       ELSE IF r.error # "" THEN Leave(r.error, {})
       ELSE IF idx = Len(nodes) THEN Leave("", culprits)
       ELSE Stay(pc, nodes, idx + 1, culprits, {}, <<>>)

\* SequentialHandle adding the visited node alone on a run error too.
SequentialHandleNode(node, cur_nodes, r) ==
    /\ Apply(r)
    /\ IF r.error \in {ResultMismatchError, RunFuncError}
       THEN IF ~ settings.find_all \/ idx = Len(nodes)
            THEN Leave("", culprits \cup {node})
            ELSE Stay(pc, nodes, idx + 1, culprits \cup {node}, {}, <<>>)
       ELSE IF r.error # "" THEN Leave(r.error, {})
       ELSE IF idx = Len(nodes) THEN Leave("", culprits)
       ELSE Stay(pc, nodes, idx + 1, culprits, {}, <<>>)

\* The except clauses of _sequential_traverse and what follows the round.
SequentialHandle(node, cur_nodes, r) ==
    /\ Apply(r)
    /\ IF r.error = ResultMismatchError
       THEN IF ~ settings.find_all \/ idx = Len(nodes)
            THEN Leave("", culprits \cup {node})
            ELSE Stay(pc, nodes, idx + 1, culprits \cup {node}, {}, <<>>)
       ELSE IF r.error = RunFuncError
       THEN IF ~ settings.find_all \/ idx = Len(nodes)
            THEN Leave("", culprits \cup cur_nodes)
            ELSE Stay(pc, nodes, idx + 1, culprits \cup cur_nodes, {}, <<>>)
       ELSE IF r.error # "" THEN Leave(r.error, {})
       ELSE IF idx = Len(nodes) THEN Leave("", culprits)
       ELSE Stay(pc, nodes, idx + 1, culprits, {}, <<>>)

SequentialVisit(node, cur_nodes) ==
    SequentialHandle(node, cur_nodes, Round(cur_nodes, <<node>>))

\* One iteration of the loop of _sequential_traverse, and the return that
\* follows the last one.
_sequential_traverse ==
    /\ pc = "sequential"
    /\ SequentialVisit(nodes[idx],
                       IF nodes[idx] \in DOMAIN fusions THEN fusions[nodes[idx]]
                       ELSE {nodes[idx]})
    /\ UNCHANGED <<module, fusions, fault, forward, settings, args, session, limit>>

\* Unwind returning the right half's culprits alone after the second
\* recursive call, the left half's being dropped.
RECURSIVE UnwindRightOnly(_, _)
UnwindRightOnly(st, value) ==
    IF st = <<>> THEN [done |-> TRUE, exception |-> "", value |-> value, stack |-> <<>>]
    ELSE IF Head(st).phase = "left"
    THEN IF ~ settings.find_all THEN UnwindRightOnly(Tail(st), value)
         ELSE [done |-> FALSE, exception |-> "", value |-> {},
               stack |-> <<Frame(SubSeq(Head(st).nodes, Len(Head(st).nodes) \div 2 + 1,
                                        Len(Head(st).nodes))),
                           [Head(st) EXCEPT !.phase = "right", !.culprits = value]>>
                         \o Tail(st)]
    ELSE IF Head(st).culprits \cup value = {}
    THEN [done |-> TRUE, exception |-> BadModuleError, value |-> {}, stack |-> <<>>]
    ELSE UnwindRightOnly(Tail(st), value)

\* Unwind going on to the right half, without find_all, when the left half
\* returned no culprit.
RECURSIVE UnwindSearchRight(_, _)
UnwindSearchRight(st, value) ==
    IF st = <<>> THEN [done |-> TRUE, exception |-> "", value |-> value, stack |-> <<>>]
    ELSE IF Head(st).phase = "left"
    THEN IF ~ settings.find_all /\ value # {} THEN UnwindSearchRight(Tail(st), value)
         ELSE [done |-> FALSE, exception |-> "", value |-> {},
               stack |-> <<Frame(SubSeq(Head(st).nodes, Len(Head(st).nodes) \div 2 + 1,
                                        Len(Head(st).nodes))),
                           [Head(st) EXCEPT !.phase = "right", !.culprits = value]>>
                         \o Tail(st)]
    ELSE IF Head(st).culprits \cup value = {}
    THEN [done |-> TRUE, exception |-> BadModuleError, value |-> {}, stack |-> <<>>]
    ELSE UnwindSearchRight(Tail(st), Head(st).culprits \cup value)

\* Unwind returning the empty set where both halves returned no culprit.
RECURSIVE UnwindEmpty(_, _)
UnwindEmpty(st, value) ==
    IF st = <<>> THEN [done |-> TRUE, exception |-> "", value |-> value, stack |-> <<>>]
    ELSE IF Head(st).phase = "left"
    THEN IF ~ settings.find_all THEN UnwindEmpty(Tail(st), value)
         ELSE [done |-> FALSE, exception |-> "", value |-> {},
               stack |-> <<Frame(SubSeq(Head(st).nodes, Len(Head(st).nodes) \div 2 + 1,
                                        Len(Head(st).nodes))),
                           [Head(st) EXCEPT !.phase = "right", !.culprits = value]>>
                         \o Tail(st)]
    ELSE UnwindEmpty(Tail(st), Head(st).culprits \cup value)

\* _binary_search_impl after a recursive call returned `value` to the frames
\* st: the frames left and the value returned, up to the next recursive call
\* or to the return (or the exception) of the outermost call.
RECURSIVE Unwind(_, _)
Unwind(st, value) ==
    IF st = <<>> THEN [done |-> TRUE, exception |-> "", value |-> value, stack |-> <<>>]
    ELSE IF Head(st).phase = "left"
    THEN IF ~ settings.find_all THEN Unwind(Tail(st), value)
         ELSE [done |-> FALSE, exception |-> "", value |-> {},
               stack |-> <<Frame(SubSeq(Head(st).nodes, Len(Head(st).nodes) \div 2 + 1,
                                        Len(Head(st).nodes))),
                           [Head(st) EXCEPT !.phase = "right", !.culprits = value]>>
                         \o Tail(st)]
    ELSE IF Head(st).culprits \cup value = {}
    THEN [done |-> TRUE, exception |-> BadModuleError, value |-> {}, stack |-> <<>>]
    ELSE Unwind(Tail(st), Head(st).culprits \cup value)

\* The return of _binary_search_impl with `value`.
BinaryReturn(u) ==
    IF u.done THEN Leave(u.exception, u.value)
    ELSE Stay(pc, nodes, idx, culprits, {}, u.stack)

\* BinaryHandle recursing, on a sublist of three or more nodes, on a left
\* part one node longer than nodes[:mid].
BinaryHandleOverlap(frame, cur_nodes, r) ==
    /\ Apply(r)
    /\ IF r.error \in {RunFuncError, ResultMismatchError}
       THEN IF Len(frame.nodes) = 1 THEN BinaryReturn(Unwind(Tail(stack), cur_nodes))
            ELSE Stay(pc, nodes, idx, culprits, {},
                      <<Frame(SubSeq(frame.nodes, 1,
                                     IF Len(frame.nodes) > 2
                                     THEN Len(frame.nodes) \div 2 + 1
                                     ELSE Len(frame.nodes) \div 2)),
                        [frame EXCEPT !.phase = "left"]>> \o Tail(stack))
       ELSE IF r.error # "" THEN Leave(r.error, {})
       ELSE BinaryReturn(Unwind(Tail(stack), {}))

\* The except / else clauses of _binary_search_impl.
BinaryHandle(frame, cur_nodes, r) ==
    /\ Apply(r)
    /\ IF r.error \in {RunFuncError, ResultMismatchError}
       THEN IF Len(frame.nodes) = 1 THEN BinaryReturn(Unwind(Tail(stack), cur_nodes))
            ELSE Stay(pc, nodes, idx, culprits, {},
                      <<Frame(SubSeq(frame.nodes, 1, Len(frame.nodes) \div 2)),
                        [frame EXCEPT !.phase = "left"]>> \o Tail(stack))
       ELSE IF r.error # "" THEN Leave(r.error, {})
       ELSE BinaryReturn(Unwind(Tail(stack), {}))

BinaryVisit(frame, cur_nodes) == BinaryHandle(frame, cur_nodes, Round(cur_nodes, <<>>))

\* One call of _binary_search_impl: its round, and then either the recursive
\* call on the left half or its return into the calls that wait for it.
_binary_search_impl ==
    /\ pc = "binary"
    /\ BinaryVisit(Head(stack),
                   Range(Head(stack).nodes)
                   \cup UNION {fusions[n] : n \in Range(Head(stack).nodes) \cap DOMAIN fusions})
    /\ UNCHANGED <<module, fusions, fault, forward, settings, args, session, limit>>

\* AccumulateHandle going on to the next node after a failing round.
AccumulateHandleAll(node, to_run, r) ==
    /\ Apply(r)
    /\ IF r.error \in {ResultMismatchError, RunFuncError}
       THEN IF idx = Len(nodes) THEN Leave("", culprits \cup {node})
            ELSE Stay(pc, nodes, idx + 1, culprits \cup {node}, to_run, <<>>)
       ELSE IF r.error # "" THEN Leave(r.error, {})
       ELSE IF idx = Len(nodes) THEN Leave("", culprits)
       ELSE Stay(pc, nodes, idx + 1, culprits, to_run, <<>>)

\* The except clause of _accumulate_traverse and what follows the round.
AccumulateHandle(node, to_run, r) ==
    /\ Apply(r)
    /\ IF r.error \in {ResultMismatchError, RunFuncError}
       THEN Leave("", culprits \cup {node})
       ELSE IF r.error # "" THEN Leave(r.error, {})
       ELSE IF idx = Len(nodes) THEN Leave("", culprits)
       ELSE Stay(pc, nodes, idx + 1, culprits, to_run, <<>>)

AccumulateVisit(node, to_run) == AccumulateHandle(node, to_run, Round(to_run, <<node>>))

\* One iteration of the loop of _accumulate_traverse, and the return that
\* follows the last one.
_accumulate_traverse ==
    /\ pc = "accumulate"
    /\ AccumulateVisit(nodes[idx], nodes_to_run \cup {nodes[idx]})
    /\ UNCHANGED <<module, fusions, fault, forward, settings, args, session, limit>>

\* RunNodesHandle letting the exception of the round propagate.
RunNodesHandleRaise(r) ==
    /\ Apply(r)
    /\ Left("run_nodes", r.error, None)

\* The except clause of run_nodes and its return.
RunNodesHandle(r) ==
    /\ Apply(r)
    /\ IF r.error \in {RunFuncError, ResultMismatchError} THEN Left("run_nodes", "", None)
       ELSE Left("run_nodes", r.error, None)

RunNodesVisit(collected) ==
    RunNodesHandle(Round(Range(collected)
                         \cup UNION {fusions[n] : n \in Range(collected) \cap DOMAIN fusions},
                         IF settings.return_intermediate THEN collected ELSE <<>>))

\* run_nodes(start, end).
run_nodes ==
    /\ pc = "idle"
    /\ Len(calls) < limit
    /\ RunNodesVisit(_collect_nodes(args.start, args.end))
    /\ UNCHANGED <<module, fusions, fault, forward, settings, args, session, limit>>

\* __init__ of a new minimizer for the same module, sample input and
\* backends, with find_all set or not.
__init__ ==
    /\ pc = "idle"
    /\ calls # <<>>
    /\ Len(calls) < limit
    /\ calls[Len(calls)].session = session
    /\ \E all \in BOOLEAN : settings' = [settings EXCEPT !.find_all = all]
    /\ a_outputs' = InitOutputs
    /\ b_outputs' = InitOutputs
    /\ results' = <<>>
    /\ rounds' = <<>>
    /\ session' = session + 1
    /\ UNCHANGED <<module, fusions, fault, forward, args, tag, pc, nodes, idx, culprits,
                   nodes_to_run, stack, calls, limit>>

(***************************************************************************)
(* Specifications                                                           *)
(***************************************************************************)
\* The state after __init__ of the first minimizer.
InitOn(graphs, faults, forwards, setts, ranges, n) ==
    /\ module \in graphs
    /\ fusions \in FusionMaps(module)
    /\ fault \in faults
    /\ forward \in forwards
    /\ settings \in setts
    /\ args \in ranges
    /\ limit = n
    /\ a_outputs = InitOutputs
    /\ b_outputs = InitOutputs
    /\ results = <<>>
    /\ tag = [n1 \in Node |-> ""]
    /\ pc = "idle"
    /\ nodes = <<>>
    /\ idx = 0
    /\ culprits = {}
    /\ nodes_to_run = {}
    /\ stack = <<>>
    /\ rounds = <<>>
    /\ calls = <<>>
    /\ session = 1

\* The same, the forward pass of a live capture succeeding.
InitWith(graphs, faults, setts, ranges, n) == InitOn(graphs, faults, {"ok"}, setts, ranges, n)

\* Every traversal, called MaxCalls times on one minimizer.
Init == InitWith(Graphs, FaultMaps(FaultKinds \ {"ok"}, 1),
                 Settings(Methods, BOOLEAN, BOOLEAN), {WholeRange}, MaxCalls)

Next ==
    \/ minimize
    \/ _sequential_traverse
    \/ _binary_search_impl
    \/ _accumulate_traverse

Spec == Init /\ [][Next]_vars

\* The sequential traversal, called once, over every range.
InitSequential ==
    InitWith(Graphs, FaultMaps({"mismatch", "b_err"}, 2),
             Settings({"sequential"}, BOOLEAN, BOOLEAN), Ranges, 1)

NextSequential == minimize \/ _sequential_traverse

SpecSequential == InitSequential /\ [][NextSequential]_vars

\* The binary search, called once, over every range.
InitBinary ==
    InitWith(Graphs, FaultMaps({"mismatch", "b_err"}, 2),
             Settings({"binary"}, BOOLEAN, BOOLEAN), Ranges, 1)

NextBinary == minimize \/ _binary_search_impl

SpecBinary == InitBinary /\ [][NextBinary]_vars

\* The sequential traversal, called MaxCalls times on one minimizer.
InitRepeat ==
    InitWith(Graphs, FaultMaps({"mismatch", "b_err"}, 1),
             Settings({"sequential"}, BOOLEAN, BOOLEAN), Ranges, MaxCalls)

SpecRepeat == InitRepeat /\ [][NextSequential]_vars

\* A sequential or binary run without find_all, and then runs on the same
\* minimizer or on a new one, with find_all or without.
InitFresh ==
    InitWith(Graphs, FaultMaps({"mismatch", "b_exc"}, 2) \cup FaultMaps({"b_err"}, 1),
             Settings({"sequential", "binary"}, BOOLEAN, {FALSE}), {WholeRange}, MaxCalls)

NextFresh ==
    \/ minimize
    \/ _sequential_traverse
    \/ _binary_search_impl
    \/ __init__

SpecFresh == InitFresh /\ [][NextFresh]_vars

\* The accumulate traversal, called MaxCalls times on one minimizer, over
\* every range.
InitAccumulate ==
    InitWith(Graphs, FaultMaps({"mismatch", "b_err"}, 2) \cup FaultMaps({"a_err"}, 1),
             Settings({"accumulate"}, BOOLEAN, BOOLEAN), Ranges, MaxCalls)

NextAccumulate == minimize \/ _accumulate_traverse

SpecAccumulate == InitAccumulate /\ [][NextAccumulate]_vars

\* Every traversal, called once, over every start and end.
InitCollect ==
    InitWith(Graphs, FaultMaps({"mismatch"}, 1), Settings(Methods, {FALSE}, {FALSE}),
             AllRanges, 1)

SpecCollect == InitCollect /\ [][Next]_vars

\* run_nodes, called MaxCalls times on one minimizer, over every range.
InitRunNodes ==
    InitWith(Graphs, FaultMaps({"mismatch", "a_err", "b_err"}, 1), RunSettings, Ranges, MaxCalls)

NextRunNodes == run_nodes

SpecRunNodes == InitRunNodes /\ [][NextRunNodes]_vars

\* The binary search with find_all, called once, over every range, on the
\* graphs above and on Join.
InitFindAll ==
    InitWith(Graphs \cup {Join}, FaultMaps({"mismatch", "b_err"}, 2),
             Settings({"binary"}, BOOLEAN, {TRUE}), Ranges, 1)

SpecFindAll == InitFindAll /\ [][NextBinary]_vars

\* minimize() and run_nodes() called MaxCalls times in all, on one minimizer
\* or on new ones (the first with find_all, the later ones with or without).
InitSession ==
    InitWith(Graphs, FaultMaps({"mismatch", "b_err"}, 1),
             Settings(Methods, BOOLEAN, {TRUE}), {WholeRange}, MaxCalls)

NextSession ==
    \/ minimize
    \/ _sequential_traverse
    \/ _binary_search_impl
    \/ _accumulate_traverse
    \/ run_nodes
    \/ __init__

SpecSession == InitSession /\ [][NextSession]_vars

\* Every traversal, called MaxCalls times on one minimizer, over every
\* range, the forward pass of a live capture succeeding or raising.
InitCapture ==
    InitOn(Graphs, FaultMaps({"mismatch"}, 1), {"ok", "raise"},
           Settings(Methods, BOOLEAN, BOOLEAN), Ranges, MaxCalls)

SpecCapture == InitCapture /\ [][Next]_vars

\* The control flow of one call of _binary_search_impl, without its round:
\* the call recurses on nodes[:mid], or returns some set of culprits into the
\* calls that wait for it, or raises. It is enabled whenever a call is in
\* progress, and every step of _binary_search_impl is one of its steps.
BinaryControl ==
    /\ pc = "binary"
    /\ pc' \in {"binary", "idle"}
    /\ stack' \in {<<>>,
                   <<Frame(SubSeq(Head(stack).nodes, 1, Len(Head(stack).nodes) \div 2)),
                     [Head(stack) EXCEPT !.phase = "left"]>> \o Tail(stack)}
                  \cup {Unwind(Tail(stack), value).stack : value \in SUBSET Node}

\* The binary search, called once, over every range. The program is
\* sequential and its backends and compare_fn return or raise: minimize() is
\* called, and a call of _binary_search_impl in progress takes its next step.
SpecTerminate ==
    InitBinary /\ [][NextBinary]_vars
    /\ WF_vars(minimize) /\ WF_<<pc, stack>>(BinaryControl)

(***************************************************************************)
(* Properties                                                               *)
(***************************************************************************)
\* The node list minimize() collects.
Collected == _collect_nodes(args.start, args.end)

\* Backend B deviates at node n and nowhere else, and no backend raises.
OnlyMismatch(n) == fault[n] = "mismatch" /\ Faulty(fault) = {n}

\* C1: a sequential traversal without find_all over a range in which backend
\* B mismatches at exactly one node N (and every other node is fine) returns
\* exactly {N}.
C1_SequentialReturnsTheMismatch ==
    \A i \in DOMAIN calls : \A N \in Range(Collected) :
        (/\ calls[i].settings.traverse_method = "sequential"
         /\ ~ calls[i].settings.find_all
         /\ OnlyMismatch(N))
        => calls[i].exception = "" /\ calls[i].culprits = {N}

\* A sequential run over an inner range has returned {N} for a mismatching
\* node N that is neither the first of the range nor alone in its fusion
\* group, with accumulate_error set.
C1_Witness ==
    \E i \in DOMAIN calls : \E N \in Range(Collected) \cap DOMAIN fusions :
        /\ ~ calls[i].settings.find_all
        /\ calls[i].settings.accumulate_error
        /\ OnlyMismatch(N)
        /\ args.start # None
        /\ N # Collected[1]
        /\ calls[i].culprits = {N}

\* The fusion group of node n ({n} when it has none).
Group(n) == IF n \in DOMAIN fusions THEN fusions[n] ELSE {n}

\* S is a run of consecutive nodes of the collected range.
Contiguous(S) ==
    /\ S # {}
    /\ S \subseteq Range(Collected)
    /\ \A n \in Node : (\E a \in S : a <= n) /\ (\E b \in S : n <= b) => n \in S

\* C2: binary search over a range in which one contiguous fusion group is the
\* sole source of divergence returns exactly that group, wherever the group
\* lies in the range and for both values of find_all.
C2_BinaryReturnsTheGroup ==
    \A i \in DOMAIN calls : \A N \in Node :
        (/\ calls[i].settings.traverse_method = "binary"
         /\ OnlyMismatch(N)
         /\ DOMAIN fusions \subseteq Group(N)
         /\ Contiguous(Group(N)))
        => calls[i].exception = "" /\ calls[i].culprits = Group(N)

\* Two first calls of two minimizers that differ in find_all only.
FreshPair(i, j) ==
    /\ calls[i].first
    /\ calls[j].first
    /\ ~ calls[i].settings.find_all
    /\ calls[j].settings = [calls[i].settings EXCEPT !.find_all = TRUE]

\* C3 as stated: the find_all run returns a superset of what the run without
\* find_all returns, and returns a set whenever that run does.
C3_FindAllReturnsSuperset ==
    \A i, j \in DOMAIN calls :
        FreshPair(i, j) /\ calls[i].exception = ""
        => calls[j].exception = "" /\ calls[i].culprits \subseteq calls[j].culprits

\* C3, amended: when both runs return a set, the find_all run's set includes
\* that of the run without find_all.
C3_FindAllSupersetWhenBothReturn ==
    \A i, j \in DOMAIN calls :
        FreshPair(i, j) /\ calls[i].exception = "" /\ calls[j].exception = ""
        => calls[i].culprits \subseteq calls[j].culprits

\* A binary search with find_all has returned strictly more than the
\* non-empty set the binary search without find_all returned.
C3_Witness ==
    \E i, j \in DOMAIN calls :
        /\ FreshPair(i, j)
        /\ calls[i].settings.traverse_method = "binary"
        /\ calls[i].exception = ""
        /\ calls[j].exception = ""
        /\ calls[i].culprits # {}
        /\ calls[i].culprits # calls[j].culprits
        /\ calls[i].culprits \subseteq calls[j].culprits

\* C4: two sequential minimize() calls on the same minimizer end the same way.
C4_SequentialIdempotent ==
    \A i, j \in DOMAIN calls :
        (/\ calls[i].session = calls[j].session
         /\ calls[i].settings.traverse_method = "sequential")
        => /\ calls[i].exception = calls[j].exception
           /\ calls[i].culprits = calls[j].culprits

\* The rounds of the i-th call of minimize(), as indices of `rounds`.
RoundsOf(i) == {k \in DOMAIN rounds : rounds[k].call = i}

Failing(r) == r.error \in {ResultMismatchError, RunFuncError}

\* C5: the accumulate traversal returns at most one culprit and halts at the
\* first round that ends in ResultMismatchError or RunFuncError: no round of
\* the call follows that round, and the node visited in it is the one culprit
\* returned.
C5_AccumulateHaltsAtFirstFailure ==
    /\ \A k, l \in DOMAIN rounds :
          (/\ settings.traverse_method = "accumulate"
           /\ rounds[k].call = rounds[l].call
           /\ k < l)
          => ~ Failing(rounds[k])
    /\ \A i \in DOMAIN calls :
          calls[i].settings.traverse_method = "accumulate"
          => /\ Cardinality(calls[i].culprits) <= 1
             /\ \A k \in RoundsOf(i) :
                   Failing(rounds[k])
                   => /\ calls[i].exception = ""
                      /\ calls[i].culprits = {rounds[k].output_names[1]}

\* An accumulate traversal has returned one culprit after a failing round on
\* a node that is neither the first nor the last of its range, having run as
\* many rounds as there are nodes up to that one.
C5_Witness ==
    \E i \in DOMAIN calls : \E k \in RoundsOf(i) : \E p \in DOMAIN Collected :
        /\ calls[i].settings.traverse_method = "accumulate"
        /\ Failing(rounds[k])
        /\ Collected[p] = rounds[k].output_names[1]
        /\ 1 < p
        /\ p < Len(Collected)
        /\ Cardinality(RoundsOf(i)) = p
        /\ calls[i].culprits = {Collected[p]}
        /\ \E n \in Node : n > Collected[p] /\ fault[n] # "ok"

\* The names some round before the k-th stored outputs under (both backends
\* having run), together with the graph's placeholder stored by __init__.
StoredBefore(k) ==
    {Input} \cup UNION {Range(rounds[j].output_nodes) : j \in {l \in 1 .. k - 1 : rounds[l].compared}}

\* C6: a round all of whose placeholders were stored by earlier rounds of
\* the session (or by __init__) takes its inputs from the stored outputs and
\* registers no forward pre-hook.
C6_StoredInputsNoCapture ==
    \A k \in DOMAIN rounds :
        (rounds[k].built /\ Range(rounds[k].placeholders) \subseteq StoredBefore(k))
        => /\ ~ rounds[k].hook
           /\ rounds[k].a_input = Stored(rounds[k].a_stored, rounds[k].placeholders)
           /\ rounds[k].b_input \in {Stored(rounds[k].a_stored, rounds[k].placeholders),
                                     Stored(rounds[k].b_stored, rounds[k].placeholders)}

\* A round has read, without a hook, an output of a node that an earlier
\* round stored.
C6_Witness ==
    \E k \in DOMAIN rounds : \E j \in 1 .. k - 1 : \E X \in Node :
        /\ rounds[j].compared
        /\ X \in Range(rounds[j].output_nodes)
        /\ rounds[k].built
        /\ X \in Range(rounds[k].placeholders)
        /\ Range(rounds[k].placeholders) \subseteq StoredBefore(k)
        /\ ~ rounds[k].hook
        /\ rounds[k].ran_b

\* C7: without accumulate_error every round hands run_b the input list it
\* hands run_a, and when the inputs are not captured they are the stored
\* outputs of backend A.
C7_SameInputsWithoutAccumulateError ==
    \A k \in DOMAIN rounds :
        (rounds[k].built /\ ~ settings.accumulate_error)
        => /\ rounds[k].b_input = rounds[k].a_input
           /\ ~ rounds[k].hook
              => rounds[k].b_input = Stored(rounds[k].a_stored, rounds[k].placeholders)

\* Without accumulate_error, backend B has run on the stored output of
\* backend A for a node whose stored output of backend B differs from it.
C7_Witness ==
    \E k \in DOMAIN rounds : \E i \in DOMAIN rounds[k].placeholders :
        /\ ~ settings.accumulate_error
        /\ rounds[k].built
        /\ rounds[k].ran_b
        /\ ~ rounds[k].hook
        /\ rounds[k].a_stored[rounds[k].placeholders[i]]
             # rounds[k].b_stored[rounds[k].placeholders[i]]
        /\ rounds[k].b_input[i] = rounds[k].a_stored[rounds[k].placeholders[i]]

\* C8 as stated: with accumulate_error every round hands run_b, for each
\* placeholder that backend B has a stored output for, that stored output.
C8_BackendBGetsItsOwnOutputs ==
    \A k \in DOMAIN rounds : \A i \in DOMAIN rounds[k].placeholders :
        (/\ settings.accumulate_error
         /\ rounds[k].built
         /\ rounds[k].placeholders[i] \in DOMAIN rounds[k].b_stored)
        => rounds[k].b_input[i] = rounds[k].b_stored[rounds[k].placeholders[i]]

\* C8, amended: with accumulate_error a round all of whose placeholders have
\* stored outputs hands run_b the stored outputs of backend B, and any other
\* round hands both backends the inputs captured from the reference run.
C8_OwnOutputsWhenAllStored ==
    \A k \in DOMAIN rounds :
        (settings.accumulate_error /\ rounds[k].built)
        => IF Range(rounds[k].placeholders) \subseteq DOMAIN rounds[k].a_stored
           THEN /\ ~ rounds[k].hook
                /\ rounds[k].b_input = Stored(rounds[k].b_stored, rounds[k].placeholders)
           ELSE /\ rounds[k].hook
                /\ rounds[k].b_input = rounds[k].a_input
                /\ rounds[k].b_input = Captured(rounds[k].placeholders)

\* With accumulate_error, backend B has run on its own stored output for a
\* node, which differs from the stored output of backend A.
C8_Witness ==
    \E k \in DOMAIN rounds : \E i \in DOMAIN rounds[k].placeholders :
        /\ settings.accumulate_error
        /\ rounds[k].built
        /\ rounds[k].ran_b
        /\ ~ rounds[k].hook
        /\ rounds[k].a_stored[rounds[k].placeholders[i]]
             # rounds[k].b_stored[rounds[k].placeholders[i]]
        /\ rounds[k].b_input[i] = rounds[k].b_stored[rounds[k].placeholders[i]]

\* A backend that ran in round r raised.
BackendRaised(r) ==
    \/ r.ran_a /\ Raises(r.submodule, "a") # ""
    \/ r.ran_b /\ Raises(r.submodule, "b") # ""

\* C9: a round in which backend A or backend B raises ends in
\* FxNetMinimizerRunFuncError, and no other exception leaves minimize()
\* because of it.
C9_BackendFailureIsRunFuncError ==
    /\ \A k \in DOMAIN rounds :
          (rounds[k].built /\ BackendRaised(rounds[k])) => rounds[k].error = RunFuncError
    /\ \A i \in DOMAIN calls : calls[i].exception \in {"", BadModuleError}

\* C10: FxNetMinimizerRunFuncError and FxNetMinimizerResultMismatchError never
\* leave minimize(); a call that returns after a round ended in one of them
\* returns a culprit among the nodes of that round; and a call in which
\* _build_submodule raised FxNetMinimizerBadModuleError ends in that exception.
C10_RoundErrorsBecomeCulprits ==
    \A i \in DOMAIN calls :
        /\ calls[i].exception \notin {RunFuncError, ResultMismatchError}
        /\ \A k \in RoundsOf(i) :
              /\ (Failing(rounds[k]) /\ calls[i].exception = "")
                 => calls[i].culprits \cap rounds[k].selected # {}
              /\ ~ rounds[k].built => calls[i].exception = BadModuleError

\* The callable nodes from the node named start through the node named end,
\* in graph order.
Between(start, end) ==
    Sorted({n \in Node : (start = None \/ start <= n) /\ (end = None \/ n <= end)})

\* C11: _collect_nodes(start, end) is the list, in graph order, of exactly the
\* callable nodes from the node named start (None: the first) through the node
\* named end (None: the last), both included, and it is the list the
\* traversal minimize() dispatches to works on.
C11_CollectNodesIsTheRange ==
    /\ _collect_nodes(args.start, args.end) = Between(args.start, args.end)
    /\ Input \notin Range(_collect_nodes(args.start, args.end))
    /\ pc \in {"sequential", "accumulate"} => nodes = Between(args.start, args.end)
    /\ pc = "binary" => stack[Len(stack)].nodes = Between(args.start, args.end)

\* A traversal is working on the nodes collected from an interior start
\* through a later interior end.
C11_Witness ==
    /\ pc # "idle"
    /\ args.start \notin {None, 1}
    /\ args.end \notin {None, NumNodes}
    /\ args.start < args.end
    /\ nodes = Between(args.start, args.end)
    /\ nodes[1] = args.start
    /\ nodes[Len(nodes)] = args.end

\* The collected nodes and the fusion groups of those that have one.
Expanded == Range(Collected) \cup UNION {fusions[n] : n \in Range(Collected) \cap DOMAIN fusions}

\* C12: run_nodes runs exactly one round, on the collected nodes expanded by
\* their fusion groups, with every collected node as an output when
\* return_intermediate is set; when that round ends in
\* FxNetMinimizerRunFuncError or FxNetMinimizerResultMismatchError, run_nodes
\* returns, raising nothing and returning no culprit set (None).
C12_RunNodesOneRoundNoVerdict ==
    \A i \in DOMAIN calls :
        calls[i].op = "run_nodes"
        => /\ Cardinality(RoundsOf(i)) = 1
           /\ \A k \in RoundsOf(i) :
                 /\ rounds[k].selected = Expanded
                 /\ rounds[k].output_names
                      = IF settings.return_intermediate THEN Collected ELSE <<>>
                 /\ (rounds[k].built /\ settings.return_intermediate)
                    => rounds[k].output_nodes = Collected
                 /\ (rounds[k].built /\ ~ settings.return_intermediate)
                    => rounds[k].output_nodes = Outputs(Expanded)
                 /\ Failing(rounds[k]) \/ rounds[k].error = ""
                    => calls[i].exception = "" /\ calls[i].culprits = None

\* run_nodes has returned after a failing round on a range of two or more
\* nodes that a fusion group extends, every collected node being an output.
C12_Witness ==
    \E i \in DOMAIN calls : \E k \in RoundsOf(i) :
        /\ calls[i].op = "run_nodes"
        /\ settings.return_intermediate
        /\ Failing(rounds[k])
        /\ Len(Collected) >= 2
        /\ Expanded # Range(Collected)
        /\ rounds[k].output_nodes = Collected
        /\ calls[i].exception = ""

\* The last round of the i-th call.
LastRound(i) == CHOOSE k \in RoundsOf(i) : \A l \in RoundsOf(i) : l <= k

LeftHalf(ns) == SubSeq(ns, 1, Len(ns) \div 2)

\* C13: binary search without find_all goes down the left halves only: a
\* round is followed by another one only if it failed on two or more nodes,
\* and then by the round on the left half of its nodes; so every round is on
\* a prefix of the collected nodes and none on a right half. The search
\* returns the empty set when its last round succeeded, and the (fusion
\* extended) single node of its last round when that failed.
C13_BinaryLeftBiased ==
    (settings.traverse_method = "binary" /\ ~ settings.find_all)
    => /\ \A k \in DOMAIN rounds :
             /\ rounds[k].sublist = SubSeq(Collected, 1, Len(rounds[k].sublist))
             /\ (k + 1 \in DOMAIN rounds /\ rounds[k + 1].call = rounds[k].call)
                => /\ Failing(rounds[k])
                   /\ Len(rounds[k].sublist) >= 2
                   /\ rounds[k + 1].sublist = LeftHalf(rounds[k].sublist)
       /\ \A i \in DOMAIN calls :
             RoundsOf(i) # {}
             => /\ rounds[LastRound(i)].error = ""
                   => calls[i].exception = "" /\ calls[i].culprits = {}
                /\ Failing(rounds[LastRound(i)])
                   => /\ Len(rounds[LastRound(i)].sublist) = 1
                      /\ calls[i].exception = ""
                      /\ calls[i].culprits = rounds[LastRound(i)].selected

\* A binary search without find_all has returned the empty set after a
\* failing round on the whole range and a succeeding round on its left half,
\* the faulty node lying in the right half.
C13_Witness ==
    \E i \in DOMAIN calls :
        /\ settings.traverse_method = "binary"
        /\ ~ settings.find_all
        /\ Cardinality(RoundsOf(i)) = 2
        /\ Failing(rounds[1])
        /\ rounds[2].error = ""
        /\ rounds[2].sublist = LeftHalf(Collected)
        /\ Faulty(fault) # {}
        /\ Faulty(fault) \cap Range(LeftHalf(Collected)) = {}
        /\ calls[i].culprits = {}

\* What a round of the sequential traversal adds to the culprits.
Added(r) ==
    IF r.error = ResultMismatchError THEN {r.output_names[1]}
    ELSE IF r.error = RunFuncError THEN r.selected
    ELSE {}

\* The rounds of the i-th call, in the order they were run.
RoundSeq(i) == Sorted(RoundsOf(i))

\* C14: the rounds of a sequential traversal are on the nodes of the range in
\* order, each on the fusion group of its node with the node as output; a
\* round ending in FxNetMinimizerResultMismatchError adds the node, one ending
\* in FxNetMinimizerRunFuncError the whole fusion group; without find_all the
\* traversal returns right after the first failing round, with find_all it
\* runs a round for every node; it returns the union of what was added.
C14_SequentialClassifies ==
    \A i \in DOMAIN calls :
        (calls[i].settings.traverse_method = "sequential" /\ calls[i].exception = "")
        => /\ \A p \in DOMAIN RoundSeq(i) :
                 /\ p <= Len(Collected)
                 /\ rounds[RoundSeq(i)[p]].output_names = <<Collected[p]>>
                 /\ rounds[RoundSeq(i)[p]].selected = Group(Collected[p])
                 /\ (~ settings.find_all /\ p < Len(RoundSeq(i)))
                    => ~ Failing(rounds[RoundSeq(i)[p]])
           /\ Len(RoundSeq(i)) = Len(Collected)
              \/ /\ ~ settings.find_all
                 /\ RoundSeq(i) # <<>>
                 /\ Failing(rounds[LastRound(i)])
           /\ calls[i].culprits = UNION {Added(rounds[k]) : k \in RoundsOf(i)}

\* A sequential traversal with find_all has run a round for every node and
\* returned the node of a mismatching round together with the two nodes of
\* the fusion group of a round in which a backend raised.
C14_Witness ==
    \E i \in DOMAIN calls : \E k, l \in RoundsOf(i) :
        /\ calls[i].settings.traverse_method = "sequential"
        /\ settings.find_all
        /\ rounds[k].error = ResultMismatchError
        /\ rounds[l].error = RunFuncError
        /\ Cardinality(rounds[l].selected) = 2
        /\ rounds[l].selected \subseteq calls[i].culprits
        /\ Len(RoundSeq(i)) = Len(Collected)
        /\ Cardinality(calls[i].culprits) = 3

\* The first round of the i-th call.
FirstRound(i) == CHOOSE k \in RoundsOf(i) : \A l \in RoundsOf(i) : k <= l

\* C15: a binary search with find_all that returns has found a culprit among
\* the nodes of every failing round it ran (where the two halves of a failing
\* sublist both return no culprit it raises FxNetMinimizerBadModuleError
\* instead); so it returns a non-empty set iff its round on the whole range
\* failed.
C15_FindAllNeverReturnsEmptyAfterFailure ==
    \A i \in DOMAIN calls :
        (/\ calls[i].settings.traverse_method = "binary"
         /\ calls[i].settings.find_all
         /\ calls[i].exception = "")
        => /\ \A k \in RoundsOf(i) :
                 Failing(rounds[k]) => calls[i].culprits \cap rounds[k].selected # {}
           /\ calls[i].culprits # {} <=> Failing(rounds[FirstRound(i)])

\* A binary search with find_all has ended in FxNetMinimizerBadModuleError
\* after a failing round on a sublist of two nodes was followed by a
\* succeeding round on each of its halves.
C15_Witness ==
    \E i \in DOMAIN calls : \E k \in RoundsOf(i) :
        /\ calls[i].settings.find_all
        /\ calls[i].exception = BadModuleError
        /\ k + 2 = LastRound(i)
        /\ Failing(rounds[k])
        /\ Len(rounds[k].sublist) = 2
        /\ rounds[k + 1].built /\ rounds[k + 1].error = ""
        /\ rounds[k + 2].built /\ rounds[k + 2].error = ""
        /\ rounds[k + 1].sublist \o rounds[k + 2].sublist = rounds[k].sublist

\* The stores as the k-th round of the session left them: as the next round
\* found them, or as they are now.
AfterA(k) == IF k = Len(rounds) THEN a_outputs ELSE rounds[k + 1].a_stored

AfterB(k) == IF k = Len(rounds) THEN b_outputs ELSE rounds[k + 1].b_stored

Target == rounds[Len(rounds)].selected

\* C17: after _tag_nodes(T) every callable node has one of the three tags:
\* "minimize" iff it is in T, else "main_1" iff one of its callable inputs is
\* tagged "minimize" or "main_1", else "main_0"; the tags are those
\* _tag_nodes computes on the graph with no tags, whatever the earlier rounds
\* left; and no "main_0" node has a callable input tagged "minimize" or
\* "main_1".
C17_TagsDependOnTargetOnly ==
    rounds # <<>>
    => /\ \A n \in Node :
             tag[n] = IF n \in Target THEN "minimize"
                      ELSE IF \E i \in module[n] \cap Node : tag[i] \in {"minimize", "main_1"}
                      THEN "main_1"
                      ELSE "main_0"
       /\ tag = TagFrom(1, Target, [n \in Node |-> ""])
       /\ \A n \in Node :
             tag[n] = "main_0"
             => \A i \in module[n] \cap Node : tag[i] = "main_0"

\* A round has tagged "main_0" a node that was in the target set of the round
\* before it, and "main_1" a node that follows the target set.
C17_Witness ==
    /\ Len(rounds) >= 2
    /\ \E n \in rounds[Len(rounds) - 1].selected : tag[n] = "main_0"
    /\ \E n \in Node : n \notin rounds[Len(rounds) - 1].selected /\ tag[n] = "minimize"
    /\ \E n \in Node : tag[n] = "main_1"
    /\ tag = TagFrom(1, Target, [n \in Node |-> ""])

\* C18: the forward pre-hook that a live capture registers on the submodule
\* has been removed when _get_submod_inputs is left, by its return or by the
\* exception of the forward pass; so no round leaves a hook registered for
\* the rounds that follow.
C18_CaptureHookRemoved ==
    \A k \in DOMAIN rounds : rounds[k].hook => rounds[k].removed

\* The results dict as the k-th round left it.
AfterResults(k) == IF k = Len(rounds) THEN results ELSE rounds[k + 1].results

\* C19: in a round run_b runs only after run_a returned and compare_fn only
\* after both returned; and a round in which a backend raised leaves
\* a_outputs, b_outputs and results as it found them.
C19_RunOrderAndNoPartialStore ==
    \A k \in DOMAIN rounds :
        rounds[k].built
        => /\ rounds[k].ran_b => rounds[k].ran_a /\ Raises(rounds[k].submodule, "a") = ""
           /\ rounds[k].compared
              => /\ rounds[k].ran_a /\ rounds[k].ran_b
                 /\ ~ BackendRaised(rounds[k])
           /\ BackendRaised(rounds[k])
              => /\ AfterA(k) = rounds[k].a_stored
                 /\ AfterB(k) = rounds[k].b_stored
                 /\ AfterResults(k) = rounds[k].results

\* Backend B raised in a round, after backend A returned outputs that are
\* not stored, and a later round has run.
C19_Witness ==
    \E k \in DOMAIN rounds :
        /\ k < Len(rounds)
        /\ rounds[k].ran_a
        /\ rounds[k].ran_b
        /\ Raises(rounds[k].submodule, "b") # ""
        /\ ~ rounds[k].compared
        /\ rounds[k].output_nodes # <<>>
        /\ Range(rounds[k].output_nodes) \cap DOMAIN AfterA(k) = {}
        /\ \E l \in DOMAIN rounds : Raises(rounds[l].submodule, "a") = "" /\ rounds[l].compared

\* C20: a_outputs and b_outputs have the same keys, in every state and at the
\* start of every round, so that b_outputs has every placeholder name that the
\* test against the keys of a_outputs found.
C20_StoresHaveSameKeys ==
    /\ DOMAIN a_outputs = DOMAIN b_outputs
    /\ \A k \in DOMAIN rounds :
          /\ DOMAIN rounds[k].a_stored = DOMAIN rounds[k].b_stored
          /\ (rounds[k].built /\ ~ rounds[k].hook)
             => Range(rounds[k].placeholders) \subseteq DOMAIN rounds[k].b_stored

\* A round has read its inputs from the stores after a round that ended in a
\* mismatch, the stores holding the differing outputs of that round under
\* the same keys.
C20_Witness ==
    \E k, m \in DOMAIN rounds :
        /\ k < m
        /\ rounds[k].error = ResultMismatchError
        /\ rounds[m].built
        /\ ~ rounds[m].hook
        /\ Range(rounds[m].placeholders) \cap Range(rounds[k].output_nodes) # {}
        /\ rounds[m].a_stored # rounds[m].b_stored
        /\ DOMAIN rounds[m].a_stored = DOMAIN rounds[m].b_stored
        /\ Cardinality(DOMAIN rounds[m].b_stored) >= 3

\* The rounds of the binary search in progress or finished are within the
\* bound: the frames of the recursion hold non-empty lists, each strictly
\* shorter than that of the frame that called it; no two rounds of a call are
\* on the same sublist; and a call on n >= 1 nodes has run at most 2n - 1
\* rounds.
BinaryBounded ==
    Collected # <<>>
    => /\ \A f \in DOMAIN stack :
             /\ stack[f].nodes # <<>>
             /\ f + 1 \in DOMAIN stack => Len(stack[f].nodes) < Len(stack[f + 1].nodes)
       /\ \A k, l \in DOMAIN rounds :
             /\ rounds[k].sublist # <<>>
             /\ (k # l /\ rounds[k].call = rounds[l].call)
                => rounds[k].sublist # rounds[l].sublist
       /\ \A c \in 1 .. Len(calls) + 1 :
             Cardinality(RoundsOf(c)) <= 2 * Len(Collected) - 1

\* C21: the binary search terminates: its recursive calls are on non-empty,
\* strictly shorter sublists, each sublist gets at most one round, a range of
\* n nodes runs at most 2n - 1 rounds, and minimize() is eventually left.
C21_BinarySearchTerminates == [] BinaryBounded /\ <> (calls # <<>>)

\* A binary search on three or more nodes has returned after 2n - 1 rounds.
C21_Witness ==
    \E i \in DOMAIN calls :
        /\ calls[i].settings.traverse_method = "binary"
        /\ calls[i].exception = ""
        /\ Len(Collected) >= 3
        /\ Cardinality(RoundsOf(i)) = 2 * Len(Collected) - 1
        /\ pc = "idle"

====
